---- MODULE Spec2Model ----
(***************************************************************************)
(* ContextMAN Core API (server/main.py, server/run.py).                    *)
(*                                                                         *)
(* Text values are sequences of tokens: the literals of the source are     *)
(* single tokens, the texts a client or a delegate supplies are sequences  *)
(* over Chars.  A Python value is a record [tag, s]: None, a str, or an    *)
(* (empty) list standing for the other falsy values.                       *)
(***************************************************************************)
EXTENDS Integers, Sequences, FiniteSets, TLC

\* ---------------------------------------------------------------- bounds
NReq == 2
MaxLen == 2
MaxChoices == 2

Reqs == 1..NReq
Chars == {"a", "<fence>"}
Strs == UNION {[1..n -> Chars] : n \in 0..MaxLen}

\* ---------------------------------------------------------------- values
None == [tag |-> "none", s |-> <<>>]
Absent == [tag |-> "absent", s |-> <<>>]
EmptyList == [tag |-> "list", s |-> <<>>]
Str(s) == [tag |-> "str", s |-> s]

\* Python truthiness, as used by 'if not X' and 'X if Y else Z'.
Truthy(v) == v.tag \in {"str", "list"} /\ Len(v.s) > 0

\* ---------------------------------------------------------------- literals
MODEL_NAME_LITERAL == <<"mixtral-8x7b-32768">>
PING_PREFIX == <<"ContextMAN server is running on Groq with model: ">>
EMPTY_RESULT_DETAIL == <<"The browser agent failed to extract content. Check server logs.">>
PARSE_FAIL_PREFIX == <<"Failed to parse URL: ">>
SYNTH_FAIL_PREFIX == <<"Failed to synthesize context: ">>
INDEX_ERROR_MSG == <<"list index out of range">>
TASK_HEAD == "You are a web scraping assistant. Your ONLY job is to extract text from the provided URL: "
TASK_TAIL == ". DO NOT navigate to any other URLs. [...] Return only the final extracted text as a single string."
UM_HEAD == "Here is the information to synthesize:<nl><nl>**User's Goal:**<nl>"
CTX_HDR == "<nl><nl>**Messy Context / Chat History:**<nl>"
CODE_HDR == "<nl><nl>**User's Code (if any):**<nl>"
FENCE == "<fence>"
NL == "<nl>"
NA == "N/A"

\* ---------------------------------------------------------------- inputs
EnvValues == {None, Str(<<>>), Str(<<"gsk_key">>)}
Urls == {<<"http://example.com/">>, <<"https://chat.example/share/1">>}
Purposes == {<<"summarize">>, <<"fix", "N/A">>}
Contexts == {<<>>, <<"<fence>", "ctx">>}
ExcMessages == {<<"boom">>, <<"net", "down">>}

ParseBodies ==
    [url : Urls, purpose : {<<>>}, parsed_context : {<<>>}, user_code : {Absent}]
SynthBodies ==
    [url : {<<>>}, purpose : Purposes, parsed_context : Contexts,
     user_code : {Absent, None} \cup {Str(s) : s \in Strs}]
NoBody == [url |-> <<>>, purpose |-> <<>>, parsed_context |-> <<>>, user_code |-> Absent]

\* Outcomes of one delegate invocation.
Returned(v) == [type |-> "return", val |-> v, choices |-> <<>>, msg |-> <<>>]
Completion(cs) == [type |-> "return", val |-> None, choices |-> cs, msg |-> <<>>]
Raised(m) == [type |-> "raise", val |-> None, choices |-> <<>>, msg |-> m]
NoOutcome == [type |-> "none", val |-> None, choices |-> <<>>, msg |-> <<>>]

AgentOutcomes ==
    {Returned(v) : v \in {None, EmptyList} \cup {Str(s) : s \in Strs}}
        \cup {Raised(m) : m \in ExcMessages}
ChoiceContents == {None, Str(<<"### CONTEXT BRIEF ###">>)}
CompletionOutcomes ==
    {Completion(cs) : cs \in UNION {[1..n -> ChoiceContents] : n \in 0..MaxChoices}}
        \cup {Raised(m) : m \in ExcMessages}

\* Responses.
NoResp == [status |-> 0, ping_status |-> <<>>, message |-> <<>>,
           parsed_content |-> Absent, synthesized_prompt |-> Absent, detail |-> <<>>]
Http500(d) == [NoResp EXCEPT !.status = 500, !.detail = d]

VARIABLES phase, env, GROQ_API_KEY, MODEL_NAME,
          pc, kind, body, sent, calls, outstanding, outcome, resp

vars == <<phase, env, GROQ_API_KEY, MODEL_NAME,
          pc, kind, body, sent, calls, outstanding, outcome, resp>>
config == <<GROQ_API_KEY, MODEL_NAME>>
reqvars == <<pc, kind, body, sent, calls, outstanding, outcome, resp>>

Init ==
    /\ phase = "start"
    /\ env \in EnvValues
    /\ GROQ_API_KEY = None
    /\ MODEL_NAME = <<>>
    /\ pc = [r \in Reqs |-> "idle"]
    /\ kind = [r \in Reqs |-> "none"]
    /\ body = [r \in Reqs |-> NoBody]
    /\ sent = [r \in Reqs |-> <<>>]
    /\ calls = [r \in Reqs |-> 0]
    /\ outstanding = [r \in Reqs |-> 0]
    /\ outcome = [r \in Reqs |-> NoOutcome]
    /\ resp = [r \in Reqs |-> NoResp]

\* ---------------------------------------------------------------- helpers
\* request.user_code after validation: an omitted field takes the default None.
SynthesizeRequest(b) ==
    [b EXCEPT !.user_code = IF b.user_code = Absent THEN None ELSE b.user_code]

\* str(e) of the HTTPException raised at the empty-result check.
HTTPExceptionStr(status, detail) == <<ToString(status), ": ">> \o detail

parsing_task(url) == <<TASK_HEAD>> \o url \o <<TASK_TAIL>>

\* Variants of user_code_section: the fence whatever the value, and never a fence.
user_code_section_always_fenced(user_code) ==
    <<FENCE, NL>> \o user_code.s \o <<NL, FENCE>>

user_code_section_never_fenced(user_code) == <<NA>>

user_code_section(user_code) ==
    IF Truthy(user_code) THEN <<FENCE, NL>> \o user_code.s \o <<NL, FENCE>> ELSE <<NA>>

user_message(request) ==
    <<UM_HEAD>> \o request.purpose \o <<CTX_HDR>> \o request.parsed_context
        \o <<CODE_HDR>> \o user_code_section(request.user_code) \o <<NL>>

\* Variants of parse_result: no empty-result check, and a detail without the message.
parse_result_unchecked(o) ==
    IF o.type = "raise"
    THEN Http500(PARSE_FAIL_PREFIX \o o.msg)
    ELSE [NoResp EXCEPT !.status = 200, !.parsed_content = o.val]

parse_result_generic_detail(o) ==
    IF o.type = "raise" \/ ~Truthy(o.val)
    THEN Http500(PARSE_FAIL_PREFIX)
    ELSE [NoResp EXCEPT !.status = 200, !.parsed_content = o.val]

\* What parse_url does with the outcome of 'await agent.run()'.
parse_result(o) ==
    IF o.type = "raise"
    THEN Http500(PARSE_FAIL_PREFIX \o o.msg)
    ELSE IF ~Truthy(o.val)
         THEN Http500(PARSE_FAIL_PREFIX \o HTTPExceptionStr(500, EMPTY_RESULT_DETAIL))
         ELSE [NoResp EXCEPT !.status = 200, !.parsed_content = o.val]

\* Variant of synthesize_result: a completion without choices answered with a 200.
synthesize_result_swallowed(o) ==
    IF o.type = "raise"
    THEN Http500(SYNTH_FAIL_PREFIX \o o.msg)
    ELSE [NoResp EXCEPT !.status = 200,
                        !.synthesized_prompt = IF Len(o.choices) = 0 THEN None
                                               ELSE o.choices[1]]

\* What synthesize_context does with the outcome of the chat-completion call.
synthesize_result(o) ==
    IF o.type = "raise"
    THEN Http500(SYNTH_FAIL_PREFIX \o o.msg)
    ELSE IF Len(o.choices) = 0
         THEN Http500(SYNTH_FAIL_PREFIX \o INDEX_ERROR_MSG)
         ELSE [NoResp EXCEPT !.status = 200, !.synthesized_prompt = o.choices[1]]

\* Variant of ImportMain: no check of the credential.
ImportMain_unchecked ==
    /\ phase = "start"
    /\ GROQ_API_KEY' = env
    /\ MODEL_NAME' = MODEL_NAME_LITERAL
    /\ phase' = "imported"
    /\ UNCHANGED <<env, reqvars>>

\* ---------------------------------------------------------------- startup
\* run.py 'from main import app': main.py runs top to bottom.
ImportMain ==
    /\ phase = "start"
    /\ GROQ_API_KEY' = env
    /\ MODEL_NAME' = MODEL_NAME_LITERAL
    /\ phase' = IF ~Truthy(env) THEN "failed" ELSE "imported"
    /\ UNCHANGED <<env, reqvars>>

\* run.py: uvicorn.run(app, ...) starts the listener.
UvicornRun ==
    /\ phase = "imported"
    /\ phase' = "ready"
    /\ UNCHANGED <<env, config, reqvars>>

\* Variant of read_root: the message does not name the model.
read_root_unnamed(r) ==
    /\ phase = "ready"
    /\ pc[r] = "idle"
    /\ kind' = [kind EXCEPT ![r] = "ping"]
    /\ resp' = [resp EXCEPT ![r] = [NoResp EXCEPT !.status = 200,
                                        !.ping_status = <<"ok">>,
                                        !.message = PING_PREFIX]]
    /\ pc' = [pc EXCEPT ![r] = "done"]
    /\ UNCHANGED <<phase, env, config, body, sent, calls, outstanding, outcome>>

\* ---------------------------------------------------------------- handlers
read_root(r) ==
    /\ phase = "ready"
    /\ pc[r] = "idle"
    /\ kind' = [kind EXCEPT ![r] = "ping"]
    /\ resp' = [resp EXCEPT ![r] = [NoResp EXCEPT !.status = 200,
                                        !.ping_status = <<"ok">>,
                                        !.message = PING_PREFIX \o MODEL_NAME]]
    /\ pc' = [pc EXCEPT ![r] = "done"]
    /\ UNCHANGED <<phase, env, config, body, sent, calls, outstanding, outcome>>

\* parse_url up to the suspension at 'await agent.run()'.
parse_url_await(r, b) ==
    /\ phase = "ready"
    /\ pc[r] = "idle"
    /\ kind' = [kind EXCEPT ![r] = "parse"]
    /\ body' = [body EXCEPT ![r] = b]
    /\ sent' = [sent EXCEPT ![r] = parsing_task(b.url)]
    /\ calls' = [calls EXCEPT ![r] = @ + 1]
    /\ outstanding' = [outstanding EXCEPT ![r] = @ + 1]
    /\ pc' = [pc EXCEPT ![r] = "awaiting"]
    /\ UNCHANGED <<phase, env, config, outcome, resp>>

\* Variant of parse_url_resume: a failed or empty run is tried a second time.
parse_url_resume_retry(r, o) ==
    /\ pc[r] = "awaiting"
    /\ kind[r] = "parse"
    /\ IF parse_result(o).status = 500 /\ calls[r] < 2
       THEN /\ calls' = [calls EXCEPT ![r] = @ + 1]
            /\ UNCHANGED <<outcome, outstanding, resp, pc>>
       ELSE /\ outcome' = [outcome EXCEPT ![r] = o]
            /\ outstanding' = [outstanding EXCEPT ![r] = @ - 1]
            /\ resp' = [resp EXCEPT ![r] = parse_result(o)]
            /\ pc' = [pc EXCEPT ![r] = "done"]
            /\ UNCHANGED calls
    /\ UNCHANGED <<phase, env, config, kind, body, sent>>

\* The agent's run ends with outcome o and parse_url runs to its end.
parse_url_resume(r, o) ==
    /\ pc[r] = "awaiting"
    /\ kind[r] = "parse"
    /\ outcome' = [outcome EXCEPT ![r] = o]
    /\ outstanding' = [outstanding EXCEPT ![r] = @ - 1]
    /\ resp' = [resp EXCEPT ![r] = parse_result(o)]
    /\ pc' = [pc EXCEPT ![r] = "done"]
    /\ UNCHANGED <<phase, env, config, kind, body, sent, calls>>

\* Variant of synthesize_context_await: the handler rebinds the global model name.
synthesize_context_await_rebinding(r, b) ==
    /\ phase = "ready"
    /\ pc[r] = "idle"
    /\ kind' = [kind EXCEPT ![r] = "synthesize"]
    /\ body' = [body EXCEPT ![r] = b]
    /\ sent' = [sent EXCEPT ![r] = user_message(SynthesizeRequest(b))]
    /\ calls' = [calls EXCEPT ![r] = @ + 1]
    /\ outstanding' = [outstanding EXCEPT ![r] = @ + 1]
    /\ pc' = [pc EXCEPT ![r] = "awaiting"]
    /\ MODEL_NAME' = b.purpose
    /\ UNCHANGED <<phase, env, GROQ_API_KEY, outcome, resp>>

\* synthesize_context up to the suspension at 'await client.chat.completions.create'.
synthesize_context_await(r, b) ==
    /\ phase = "ready"
    /\ pc[r] = "idle"
    /\ kind' = [kind EXCEPT ![r] = "synthesize"]
    /\ body' = [body EXCEPT ![r] = b]
    /\ sent' = [sent EXCEPT ![r] = user_message(SynthesizeRequest(b))]
    /\ calls' = [calls EXCEPT ![r] = @ + 1]
    /\ outstanding' = [outstanding EXCEPT ![r] = @ + 1]
    /\ pc' = [pc EXCEPT ![r] = "awaiting"]
    /\ UNCHANGED <<phase, env, config, outcome, resp>>

\* The completion call ends with outcome o and synthesize_context runs to its end.
synthesize_context_resume(r, o) ==
    /\ pc[r] = "awaiting"
    /\ kind[r] = "synthesize"
    /\ outcome' = [outcome EXCEPT ![r] = o]
    /\ outstanding' = [outstanding EXCEPT ![r] = @ - 1]
    /\ resp' = [resp EXCEPT ![r] = synthesize_result(o)]
    /\ pc' = [pc EXCEPT ![r] = "done"]
    /\ UNCHANGED <<phase, env, config, kind, body, sent, calls>>

\* ---------------------------------------------------------------- specifications
\* Inputs of the concurrent specification: one case of each kind per field.
SmallSynthBodies ==
    [url : {<<>>}, purpose : Purposes, parsed_context : {<<>>},
     user_code : {Absent, None, Str(<<>>), Str(<<"a">>)}]
SmallAgentOutcomes ==
    {Returned(None), Returned(EmptyList), Returned(Str(<<>>)), Returned(Str(<<"a">>))}
        \cup {Raised(m) : m \in ExcMessages}
SmallCompletionOutcomes ==
    {Completion(<<>>), Completion(<<Str(<<"### CONTEXT BRIEF ###">>)>>)}
        \cup {Raised(m) : m \in ExcMessages}

\* NReq requests in flight at once.
Next ==
    \/ ImportMain
    \/ UvicornRun
    \/ \E r \in Reqs : read_root(r)
    \/ \E r \in Reqs : \E b \in ParseBodies : parse_url_await(r, b)
    \/ \E r \in Reqs : \E o \in SmallAgentOutcomes : parse_url_resume(r, o)
    \/ \E r \in Reqs : \E b \in SmallSynthBodies : synthesize_context_await(r, b)
    \/ \E r \in Reqs : \E o \in SmallCompletionOutcomes : synthesize_context_resume(r, o)

Spec == Init /\ [][Next]_vars

\* One request, over the whole input space.
NextOne ==
    \/ ImportMain
    \/ UvicornRun
    \/ read_root(1)
    \/ \E b \in ParseBodies : parse_url_await(1, b)
    \/ \E o \in AgentOutcomes : parse_url_resume(1, o)
    \/ \E b \in SynthBodies : synthesize_context_await(1, b)
    \/ \E o \in CompletionOutcomes : synthesize_context_resume(1, o)

SpecOne == Init /\ [][NextOne]_vars

\* ---------------------------------------------------------------- properties
Done(r, k) == kind[r] = k /\ pc[r] = "done"

\* t occurs in s as a contiguous run of tokens.
Contains(s, t) ==
    \E i \in 0..(Len(s) - Len(t)) : \A j \in 1..Len(t) : s[i + j] = t[j]

\* Position of the first occurrence of token tok in s (0 if none).
IndexOf(s, tok) ==
    IF \E i \in 1..Len(s) : s[i] = tok
    THEN CHOOSE i \in 1..Len(s) : s[i] = tok /\ \A j \in 1..(i - 1) : s[j] # tok
    ELSE 0

\* Position of the last occurrence of token tok in s (0 if none).
LastIndexOf(s, tok) ==
    IF \E i \in 1..Len(s) : s[i] = tok
    THEN CHOOSE i \in 1..Len(s) : s[i] = tok /\ \A j \in (i + 1)..Len(s) : s[j] # tok
    ELSE 0

\* The three sections of a user message, cut at its headings.
GoalSection(m) == SubSeq(m, 2, IndexOf(m, CTX_HDR) - 1)
ContextSection(m) == SubSeq(m, IndexOf(m, CTX_HDR) + 1, LastIndexOf(m, CODE_HDR) - 1)
CodeSection(m) == SubSeq(m, LastIndexOf(m, CODE_HDR) + 1, Len(m) - 1)

\* C1: whatever the extraction delegate did (text, empty string, None or
\* another falsy value, an exception), a finished /parse request has either a
\* 200 response with a non-empty parsed_content text or a 500 response; never
\* a 200 with empty or null content.
C1_ParseNeverEmpty200 ==
    \A r \in Reqs : Done(r, "parse") =>
        \/ resp[r].status = 500
        \/ /\ resp[r].status = 200
           /\ resp[r].parsed_content.tag = "str"
           /\ Len(resp[r].parsed_content.s) > 0

C1_Witness ==
    \E r \in Reqs : /\ Done(r, "parse")
                    /\ outcome[r] = Returned(Str(<<>>))
                    /\ resp[r].status = 500

\* C2: when the delegate returns an empty or falsy result without raising,
\* the 500 response of /parse carries exactly the fixed empty-result message
\* as its detail, and not a detail built by the generic handler.
C2_EmptyResultDetailIsFixed ==
    \A r \in Reqs :
        (Done(r, "parse") /\ outcome[r].type = "return" /\ ~Truthy(outcome[r].val)) =>
            /\ resp[r].status = 500
            /\ resp[r].detail = EMPTY_RESULT_DETAIL

\* C3: /parse hands the delegate's outcome on unaltered: a returned non-empty
\* text t gives 200 with parsed_content = t, an exception with message m gives
\* 500 with a detail containing m, and every response is a 200 carrying the
\* delegate's text or a 500.
C3_ParseMapsOutcome ==
    \A r \in Reqs : Done(r, "parse") =>
        /\ (outcome[r].type = "return" /\ outcome[r].val.tag = "str"
                /\ Len(outcome[r].val.s) > 0) =>
              (resp[r].status = 200 /\ resp[r].parsed_content = outcome[r].val)
        /\ outcome[r].type = "raise" =>
              (resp[r].status = 500 /\ Contains(resp[r].detail, outcome[r].msg))
        /\ resp[r].status \in {200, 500}
        /\ resp[r].status = 200 =>
              (outcome[r].type = "return" /\ resp[r].parsed_content = outcome[r].val)

C3_Witness ==
    \E r \in Reqs : /\ Done(r, "parse")
                    /\ outcome[r] = Raised(<<"net", "down">>)
                    /\ resp[r].status = 500

\* C4: a finished /synthesize request has a 200 whose synthesized_prompt is
\* the content of the completion's first choice, or a 500 whose detail
\* contains the message of the exception of the invocation (the delegate's
\* own, or the index error of a completion without choices); a 200 never
\* follows an exception and a 500 never follows a completion with a first
\* choice.
C4_SynthesizeOutcome ==
    \A r \in Reqs : Done(r, "synthesize") =>
        /\ (outcome[r].type = "return" /\ Len(outcome[r].choices) > 0) =>
              /\ resp[r].status = 200
              /\ resp[r].synthesized_prompt = outcome[r].choices[1]
        /\ outcome[r].type = "raise" =>
              (resp[r].status = 500 /\ Contains(resp[r].detail, outcome[r].msg))
        /\ (outcome[r].type = "return" /\ Len(outcome[r].choices) = 0) =>
              (resp[r].status = 500 /\ Contains(resp[r].detail, INDEX_ERROR_MSG))
        /\ resp[r].status \in {200, 500}

C4_Witness ==
    \E r \in Reqs : /\ Done(r, "synthesize")
                    /\ outcome[r] = Completion(<<>>)
                    /\ resp[r].status = 500

\* C5: when user_code is omitted or null, the code section of the user
\* message sent to the synthesis delegate is the literal N/A, without a fence,
\* and purpose and parsed_context are embedded unchanged.
C5_NoCodeGivesNA ==
    \A r \in Reqs :
        (kind[r] = "synthesize" /\ body[r].user_code \in {Absent, None}) =>
            /\ CodeSection(sent[r]) = <<NA>>
            /\ ~Contains(CodeSection(sent[r]), <<FENCE>>)
            /\ GoalSection(sent[r]) = body[r].purpose
            /\ ContextSection(sent[r]) = body[r].parsed_context

C5_Witness ==
    \E r \in Reqs : /\ kind[r] = "synthesize"
                    /\ body[r].user_code = Absent
                    /\ body[r].parsed_context = <<"<fence>", "ctx">>
                    /\ Contains(sent[r], <<NA>>)

\* C6 as stated: whenever user_code is supplied as a text value (neither
\* omitted nor null), the code section of the user message is a fenced block
\* wrapping exactly that text, and is not N/A.
C6_AnyTextIsFenced ==
    \A r \in Reqs :
        (kind[r] = "synthesize" /\ body[r].user_code.tag = "str") =>
            /\ CodeSection(sent[r]) = <<FENCE, NL>> \o body[r].user_code.s \o <<NL, FENCE>>
            /\ CodeSection(sent[r]) # <<NA>>

\* C6 amended: whenever user_code is supplied as a non-empty text, the code
\* section of the user message is a fenced block wrapping exactly that text,
\* and is not N/A; an empty text is treated like an omitted one (N/A).
C6_NonEmptyTextIsFenced ==
    \A r \in Reqs :
        /\ (kind[r] = "synthesize" /\ body[r].user_code.tag = "str"
                /\ Len(body[r].user_code.s) > 0) =>
              /\ CodeSection(sent[r]) = <<FENCE, NL>> \o body[r].user_code.s \o <<NL, FENCE>>
              /\ CodeSection(sent[r]) # <<NA>>
        /\ (kind[r] = "synthesize" /\ body[r].user_code = Str(<<>>)) =>
              CodeSection(sent[r]) = <<NA>>

C6_Witness ==
    \E r \in Reqs : /\ kind[r] = "synthesize"
                    /\ body[r].user_code = Str(<<"<fence>">>)
                    /\ Len(sent[r]) > 0

\* C7: a /parse or /synthesize request issues exactly one delegate call over
\* its life, has at most one call outstanding at any time, and answers after
\* a failed or empty call without a second call, whatever the other requests
\* are doing.
C7_SingleShot ==
    \A r \in Reqs :
        /\ calls[r] <= 1
        /\ outstanding[r] \in {0, 1}
        /\ pc[r] = "awaiting" => (calls[r] = 1 /\ outstanding[r] = 1)
        /\ (pc[r] = "done" /\ kind[r] \in {"parse", "synthesize"}) =>
              (calls[r] = 1 /\ outstanding[r] = 0 /\ resp[r].status \in {200, 500})

C7_Witness ==
    \E r, q \in Reqs : /\ r # q
                       /\ pc[r] = "done" /\ resp[r].status = 500 /\ calls[r] = 1
                       /\ pc[q] = "awaiting"

\* C8: without a credential (unset or empty) the process fails at import,
\* before the listener starts: the service is never ready and no request is
\* ever handled unless a non-empty credential was loaded.
C8_NoCredentialNeverReady ==
    /\ (phase \in {"imported", "ready"} \/ \E r \in Reqs : pc[r] # "idle") =>
          (Truthy(env) /\ GROQ_API_KEY = env)
    /\ (phase # "start" /\ ~Truthy(env)) => phase = "failed"

C8_Witness == phase = "failed" /\ ~Truthy(env) /\ \A r \in Reqs : pc[r] = "idle"

\* C9: once the service is ready no step changes the credential or the model
\* name; a step of one request leaves every other request's state alone; and
\* two finished requests of the same endpoint with the same body and the same
\* delegate outcome have the same response.
C9_NoInterference ==
    [][/\ phase = "ready" => config' = config
       /\ \A r, q \in Reqs :
            (r # q /\ pc'[r] # pc[r]) =>
                /\ pc'[q] = pc[q] /\ kind'[q] = kind[q] /\ body'[q] = body[q]
                /\ sent'[q] = sent[q] /\ calls'[q] = calls[q]
                /\ outstanding'[q] = outstanding[q]
                /\ outcome'[q] = outcome[q] /\ resp'[q] = resp[q]
       /\ \A r, q \in Reqs :
            (pc'[r] = "done" /\ pc'[q] = "done" /\ kind'[r] = kind'[q]
                /\ body'[r] = body'[q] /\ outcome'[r] = outcome'[q]) =>
                resp'[r] = resp'[q]]_vars

C9_Witness ==
    \E r, q \in Reqs : /\ r # q
                       /\ Done(r, "parse") /\ Done(q, "parse")
                       /\ body[r] = body[q]
                       /\ resp[r].status = 200 /\ resp[q].status = 500

\* C10: every /ping answers 200 with the same payload, status ok and a
\* message naming the configured model; it makes no delegate call and changes
\* nothing but its own response, whatever the other requests did.
C10_PingFixed ==
    [][\A r \in Reqs :
         (kind'[r] = "ping" /\ pc[r] = "idle" /\ pc'[r] = "done") =>
            /\ resp'[r] = [NoResp EXCEPT !.status = 200,
                                         !.ping_status = <<"ok">>,
                                         !.message = PING_PREFIX \o MODEL_NAME_LITERAL]
            /\ Contains(resp'[r].message, MODEL_NAME)
            /\ calls' = calls /\ outstanding' = outstanding
            /\ body' = body /\ sent' = sent /\ outcome' = outcome
            /\ config' = config /\ phase' = phase
            /\ \A q \in Reqs \ {r} : resp'[q] = resp[q] /\ pc'[q] = pc[q]
            /\ \A q \in Reqs : Done(q, "ping") => resp[q] = resp'[r]]_vars

C10_Witness ==
    \E r, q \in Reqs : /\ r # q
                       /\ Done(r, "ping") /\ resp[r].status = 200
                       /\ pc[q] = "done" /\ resp[q].status = 500

====
